---------------------------- MODULE Spec2Model ----------------------------
(***************************************************************************)
(* A model of the caching DNS-over-TLS forwarder:                          *)
(*   - the response cache (Cache.Get / Cache.Put over a bounded store),    *)
(*   - the LRU/MFA cache of proxy/internal/specialized,                    *)
(*   - the resolver pipeline of proxy/server.go (getAnswer, refresh,       *)
(*     forwardMessageAndCacheResponse, forwardMessageAndGetResponse).      *)
(* Time is counted in ticks; TicksPerSec ticks make one second, so that    *)
(* the sub-second part of a time.Time is visible to the model.             *)
(***************************************************************************)
EXTENDS Integers, Sequences, FiniteSets, TLC

(***************************************************************************)
(* Bounds of the model.                                                    *)
(***************************************************************************)
TicksPerSec == 2
NumKeys == 2
NumIds == 2
MaxAnswers == 2
MaxAdvances == 2
MaxSize == 1
NumLMKeys == 3
NumValues == 2
MaxLMSize == 3
MaxLMOps == 6
NumHandlers == 1
MaxPools == 3
MaxRequests == 3
MaxDequeues == 3
NumExchangers == 6
MaxElapse == 3
NumHeapKeys == 3
MaxHeapSize == 2
MaxHeapTTL == 3
MaxHeapTime == 2

(***************************************************************************)
(* Durations, in ticks (time.Duration).                                    *)
(***************************************************************************)
Second == TicksPerSec
Hour == 3600 * Second
DaySeconds == 24 * 3600

\* const maxTTL = time.Duration(24) * time.Hour
maxTTL == 24 * Hour

\* a.Header().Ttl = 60 on a stale hit
staleTTL == 60

(***************************************************************************)
(* DNS messages.  A query carries a transaction id and one question; a     *)
(* response carries in addition the TTLs (seconds) of its answer records,  *)
(* the truncated flag and the compress flag.                               *)
(***************************************************************************)
Keys == 1..NumKeys
Ids == 1..NumIds
TTLs == {0, 1, DaySeconds + 1}
AnswerLists == UNION {[1..n -> TTLs] : n \in 0..MaxAnswers}
Queries == [id : Ids, question : Keys]
\* What an upstream may answer to query q: it echoes the transaction id and
\* the question; a message read off the wire has Compress unset.
ResponsesTo(q) == [id : {q.id}, question : {q.question}, answer : AnswerLists,
                   truncated : BOOLEAN, compress : {FALSE}]

\* The nil *dns.Msg.
NilMsg == [id |-> 0, question |-> 0, answer |-> <<>>,
           truncated |-> FALSE, compress |-> FALSE]

\* func key(k *dns.Msg) string: the first question's string form; the
\* transaction id is no part of it.
key(m) == m.question

\* dns.Msg.Copy: a deep copy, field by field.
Copy(m) == [id |-> m.id, question |-> m.question,
            answer |-> [i \in 1..Len(m.answer) |-> m.answer[i]],
            truncated |-> m.truncated, compress |-> m.compress]

Min(a, b) == IF a < b THEN a ELSE b

RECURSIVE MinOf(_)
MinOf(s) == IF Len(s) = 1 THEN s[1] ELSE Min(s[1], MinOf(Tail(s)))

(***************************************************************************)
(* The bounded store behind the response cache (arc.ARC, an external       *)
(* library): a map of at most `size` keys.  Which key a Put on a full      *)
(* store evicts is the replacement policy's choice; the model leaves it    *)
(* open, so arcPut yields the set of stores the Put may produce.           *)
(***************************************************************************)
arcGet(c, k) == IF k \in DOMAIN c THEN <<c[k], TRUE>> ELSE <<[m |-> NilMsg, exp |-> 0], FALSE>>

arcInsert(c, k, val) == [x \in DOMAIN c \cup {k} |-> IF x = k THEN val ELSE c[x]]

arcRemove(c, k) == [x \in DOMAIN c \ {k} |-> c[x]]

arcPut(c, size, k, val) ==
    IF k \in DOMAIN c \/ Cardinality(DOMAIN c) < size
    THEN {arcInsert(c, k, val)}
    ELSE {arcInsert(arcRemove(c, e), k, val) : e \in DOMAIN c}

(***************************************************************************)
(* Cache.Put(k, v) at wall-clock time `now`: the set of stores it may      *)
(* leave behind.                                                           *)
(***************************************************************************)
\* exp := now.Add(time.Duration(a.Header().Ttl) * time.Second), the least
\* of them kept when it lies before now.Add(maxTTL).
RECURSIVE minExpirationTime(_, _, _)
minExpirationTime(now, answer, acc) ==
    IF answer = <<>> THEN acc
    ELSE LET exp == now + Head(answer) * Second
         IN minExpirationTime(now, Tail(answer), IF exp < acc THEN exp ELSE acc)

PutNoCap(now, answer) == minExpirationTime(now, answer, now + (DaySeconds + 2) * Second)

PutExpiration(now, answer) == minExpirationTime(now, answer, now + maxTTL)

\* cm := v.Copy(); cm.Truncated = false; cm.Compress = true
Canonical(v) == [Copy(v) EXCEPT !.truncated = FALSE, !.compress = TRUE]

PutCachesEmpty(v) == FALSE

\* Do not cache negative results.
PutSkips(v) == Len(v.answer) = 0

CachePut(c, size, now, k, v) ==
    IF PutSkips(v) THEN {c}
    ELSE arcPut(c, size, key(k),
                [m |-> Canonical(v), exp |-> PutExpiration(now, v.answer)])

(***************************************************************************)
(* Cache.Get(mk): the clock is read twice, at nowA for the expiry test     *)
(* (v.exp.Before(time.Now())) and at nowB >= nowA for the rewritten TTL    *)
(* (time.Since(v.exp)).  The result is <<message, fresh>>.                 *)
(***************************************************************************)
\* uint32(time.Since(exp).Seconds() * -1): the seconds from now to exp,
\* truncated toward zero.  A value below zero is outside uint32; with the
\* two clock reads less than a second apart it does not arise.
SecondsUntil(exp, now) ==
    IF exp >= now THEN (exp - now) \div Second
    ELSE IF now - exp < Second THEN 0
    ELSE (2 ^ 32) - ((now - exp) \div Second)

SetTTL(m, ttl) == [m EXCEPT !.answer = [i \in 1..Len(m.answer) |-> ttl]]

GetKeepsId(mv, mk) == mv

\* Rewrite the answer ID to match the question ID.
RewriteId(mv, mk) == [mv EXCEPT !.id = mk.id]

GetAliases(m) == <<m, TRUE>>

\* mv := v.m.Copy(): the message Get goes on to write to, and whether its
\* answer records are those of the stored message.
GetCopy(m) == <<Copy(m), FALSE>>

CacheGet(c, nowA, nowB, mk) ==
    LET r == arcGet(c, key(mk))
        v == r[1]
        mv == RewriteId(GetCopy(v.m)[1], mk)
    IN IF ~r[2] THEN <<NilMsg, FALSE>>
       ELSE IF v.exp < nowA THEN <<SetTTL(mv, staleTTL), FALSE>>
       ELSE <<SetTTL(mv, SecondsUntil(v.exp, nowB)), TRUE>>

\* The store after Get: v := r.(CacheValue) is a copy of the stored value, so
\* mv.Id is written to the stored message in no case; the TTLs are written to
\* the stored records only if mv's records are the stored ones.
CacheGetStore(c, nowA, nowB, mk) ==
    LET r == arcGet(c, key(mk))
        res == CacheGet(c, nowA, nowB, mk)
    IN IF r[2] /\ GetCopy(r[1].m)[2]
       THEN arcInsert(c, key(mk), [r[1] EXCEPT !.m.answer = res[1].answer])
       ELSE c

(***************************************************************************)
(* The stores of the LRU/MFA cache (proxy/internal/specialized): a store   *)
(* is a priority queue of at most `cap` items, each with a key, a value,   *)
(* the time t of its last access and the number a of its accesses.  The    *)
(* LRU store orders by t, the MFA store by a; among items that compare     *)
(* equal the heap's choice is left open.  A store is a function from the   *)
(* keys it holds to [v, t, a].                                             *)
(***************************************************************************)
LMKeys == 1..NumLMKeys
Values == 1..NumValues

\* The item with v == nil that put returns when nothing overflowed.
NoItem == [key |-> 0, v |-> 0, t |-> 0, a |-> 0]

ItemOf(s, k) == [key |-> k, v |-> s[k].v, t |-> s[k].t, a |-> s[k].a]

storeLen(s) == Cardinality(DOMAIN s)

\* byTime / byAccesses
byLess(by, x, y) == IF by = "byTime" THEN x.t < y.t ELSE x.a < y.a

\* peek: an item no other item of the store is less than.
storePeek(s, by) ==
    {ItemOf(s, k) : k \in {k \in DOMAIN s : \A j \in DOMAIN s : ~byLess(by, s[j], s[k])}}

storeGet(s, now, k) ==
    IF k \in DOMAIN s
    THEN <<[s EXCEPT ![k] = [v |-> @.v, t |-> now, a |-> @.a + 1]], s[k].v, TRUE>>
    ELSE <<s, 0, FALSE>>

storeUpdate(s, now, k, v) ==
    IF k \in DOMAIN s
    THEN <<[s EXCEPT ![k] = [v |-> v, t |-> now, a |-> @.a + 1]], TRUE>>
    ELSE <<s, FALSE>>

storeWith(s, now, k, v, a) ==
    [x \in DOMAIN s \cup {k} |-> IF x = k THEN [v |-> v, t |-> now, a |-> a] ELSE s[x]]

storeWithout(s, k) == [x \in DOMAIN s \ {k} |-> s[x]]

\* put: the pairs <<store, overflowed item>> it may yield: a full store pops
\* its least item before the new one is pushed.
storePut(s, cap, by, now, k, v, a) ==
    IF storeLen(s) < cap
    THEN {<<storeWith(s, now, k, v, a), NoItem>>}
    ELSE {<<storeWith(storeWithout(s, e.key), now, k, v, a), e>> : e \in storePeek(s, by)}

(***************************************************************************)
(* The LRU/MFA cache.  NewCache(size) gives the LRU store size/2 slots and *)
(* the MFA store size/2 + size%2.                                          *)
(***************************************************************************)
mfaCapEven(sz) == sz \div 2

lruCap(sz) == sz \div 2

mfaCap(sz) == (sz \div 2) + (sz % 2)

\* Cache.Len, Cache.Cap
LMLen(l, m) == storeLen(l) + storeLen(m)

LMCap(sz) == lruCap(sz) + mfaCap(sz)

\* Cache.Get: <<lru, mfa, v, ok>>
LMGet(l, m, now, k) ==
    LET gm == storeGet(m, now, k)
        gl == storeGet(l, now, k)
    IN IF gm[3] THEN <<l, gm[1], gm[2], TRUE>>
       ELSE IF gl[3] THEN <<gl[1], m, gl[2], TRUE>>
       ELSE <<l, m, 0, FALSE>>

\* The tail of Cache.Put, once the LRU store has overflowed item o (lines
\* 117-142): the pairs <<lru, mfa>> it may yield.
LMPromote(l, m, sz, now, o) ==
    IF storeLen(m) < mfaCap(sz)
    THEN {<<l, r[1]>> : r \in storePut(m, mfaCap(sz), "byAccesses", now, o.key, o.v, o.a)}
    ELSE UNION {
        IF pk.a < o.a \/ (pk.a = o.a /\ pk.t < o.t)
        THEN {<<l, m>>}
        ELSE UNION {
            LET mo == r[2]
            IN UNION {
                IF storeLen(l) > 0 /\ lp.a < mo.a
                THEN {<<r2[1], r[1]>> :
                        r2 \in storePut(l, lruCap(sz), "byTime", now, mo.key, mo.v, 1)}
                ELSE {<<l, r[1]>>}
                : lp \in storePeek(l, "byTime")}
            : r \in storePut(m, mfaCap(sz), "byAccesses", now, o.key, o.v, o.a)}
        : pk \in storePeek(m, "byAccesses")}

\* Cache.Put without the look-up in the MFA store.
LMPutSkipsMFA(l, m, sz, now, k, v) ==
    LET ul == storeUpdate(l, now, k, v)
    IN IF ul[2] THEN {<<ul[1], m>>}
       ELSE UNION {
           IF r[2].v = NoItem.v THEN {<<r[1], m>>}
           ELSE LMPromote(r[1], m, sz, now, r[2])
           : r \in storePut(l, lruCap(sz), "byTime", now, k, v, 1)}

\* Cache.Put: the pairs <<lru, mfa>> it may yield.
LMPut(l, m, sz, now, k, v) ==
    LET um == storeUpdate(m, now, k, v)
        ul == storeUpdate(l, now, k, v)
    IN IF um[2] THEN {<<l, um[1]>>}
       ELSE IF ul[2] THEN {<<ul[1], m>>}
       ELSE UNION {
           IF r[2].v = NoItem.v THEN {<<r[1], m>>}
           ELSE LMPromote(r[1], m, sz, now, r[2])
           : r \in storePut(l, lruCap(sz), "byTime", now, k, v, 1)}

(***************************************************************************)
(* State.                                                                  *)
(***************************************************************************)
VARIABLES
    cache,      \* the response cache's store: key -> [m, exp]
    size,       \* its capacity (cache.New(size))
    wall,       \* the wall clock, time.Now(), in ticks
    advances,   \* how often the wall clock has been advanced (bounded)
    last,       \* the latest cache operation and what it returned
    lru,        \* the LRU/MFA cache's store of recently accessed items
    mfa,        \* its store of frequently accessed items
    lmSize,     \* the size it was constructed with (Cache.capacity)
    lmT,        \* its clock (Cache.t)
    lmLast,     \* the latest operation on it and what it returned
    pools,      \* the number of upstream pools (len(s.pools))
    rq,         \* the refresh queue (s.rq), a buffered channel
    task,       \* per task (a handler or the refresher): where it is and its locals
    fan,        \* per task: the fan-out of its latest forwardMessageAndGetResponse
    reply,      \* per handler: what it last wrote to its client
    nreq,       \* the number of queries received so far (bounded)
    ndeq,       \* the number of queries the refresher has dequeued (bounded)
    currentTime,\* the coarse clock (s.currentTime)
    startTime,  \* s.startTime
    tickC,      \* the ticker's channel t.C: at most one pending tick
    nextFire,   \* when the ticker fires next
    timerPc,    \* where the timer goroutine is
    ctx,        \* the root context: "live" or "done"
    live,       \* one pool: the connections dialled and not yet closed
    idleConns,  \* of which idle in the pool
    xch,        \* per exchanger: where its exchangeMessages is, and its deadline
    lastX,      \* the latest exchangeMessages that returned, and how
    upstreams,  \* per pool, what is assumed of its upstream, if anything
    closer,     \* the goroutine of Run that waits for the context to be done
    hpq,        \* the heap-backed store: the items of c.pq, by key
    hcap,       \* cap(c.pq), the size it was made with
    ht,         \* c.t, the time of its latest put
    hnow,       \* what c.now() returns, in unix seconds
    hLast       \* its latest put and what that evicted

cacheVars == <<cache, size, wall, advances, last>>
lmVars == <<lru, mfa, lmSize, lmT, lmLast>>
srvVars == <<pools, rq, task, fan, reply, nreq, ndeq>>
clockVars == <<currentTime, startTime, tickC, nextFire, timerPc, ctx>>
connVars == <<live, idleConns, xch, lastX>>
envVars == <<upstreams, closer>>
heapVars == <<hpq, hcap, ht, hnow, hLast>>
extVars == <<clockVars, connVars, envVars, heapVars>>
vars == <<cacheVars, lmVars, srvVars, extVars>>

\* The zero time.Time, the value of a time.Time field never assigned.
ZeroTime == 0

\* The clock before Run.
ClockIdle ==
    /\ currentTime = ZeroTime
    /\ startTime = ZeroTime
    /\ tickC = <<>>
    /\ nextFire = 0
    /\ timerPc = "none"
    /\ ctx = "live"

\* What is kept of an exchangeMessages that has returned: acq, whether it
\* had acquired a connection; cause, what went wrong ("none" on success);
\* resp and err, whether it returned a response and an error; closes and
\* puts, how often it closed its connection and returned it to the pool;
\* early, whether it read the clock before the ticker's first tick; now, the
\* clock as read; ahead, whether the deadline it set lay in the future.
NoExchange == [acq |-> FALSE, cause |-> "none", resp |-> FALSE, err |-> FALSE,
               closes |-> 0, puts |-> 0, early |-> FALSE, now |-> 0,
               ahead |-> FALSE]

\* No pool, no exchanges.
ConnIdle ==
    /\ live = 0
    /\ idleConns = 0
    /\ xch = <<>>
    /\ lastX = NoExchange

\* Nothing is assumed of the upstreams.
NoPromise == upstreams = <<>>

\* go func() { <-ctx.Done(); ... }(): waiting; no pool is shut down.
CloserWaiting == closer = [pc |-> "wait", shut |-> {}]

\* key: the key put; evicted: the key of the item removed to make room,
\* or 0; least: whether no item held had less time left than the evicted one.
NoHeapPut == [key |-> 0, evicted |-> 0, least |-> TRUE]

\* No heap-backed store.
HeapIdle ==
    /\ hpq = <<>>
    /\ hcap = 0
    /\ ht = 0
    /\ hnow = 0
    /\ hLast = NoHeapPut

ExtIdle == ClockIdle /\ ConnIdle /\ NoPromise /\ CloserWaiting /\ HeapIdle

\* op: the operation; q, v: its arguments; res, ok: what a get returned;
\* changed: whether a put changed the store; held: whether the store held
\* q's key before the operation; follows: a get that came right after a put
\* for the same key, no time having passed, and put: the v of that put;
\* again: a get that came right after a get for the same key, and same:
\* whether the two returned the same but for the id and the TTLs.
NoOp == [op |-> "none", q |-> [id |-> 0, question |-> 0], v |-> NilMsg,
         res |-> NilMsg, ok |-> FALSE, changed |-> FALSE, held |-> FALSE,
         follows |-> FALSE, put |-> NilMsg, again |-> FALSE, same |-> FALSE]

\* Two responses that differ at most in the transaction id and the TTLs.
SameButTTL(a, b) ==
    /\ a.question = b.question
    /\ Len(a.answer) = Len(b.answer)
    /\ a.truncated = b.truncated
    /\ a.compress = b.compress

PutRecord(c, c2, q, v) ==
    [NoOp EXCEPT !.op = "put", !.q = q, !.v = v, !.changed = (c2 # c),
                 !.held = (key(q) \in DOMAIN c)]

GetRecord(l, c, c2, q, r) ==
    LET f == l.op = "put" /\ key(l.q) = key(q)
        g == l.op = "get" /\ key(l.q) = key(q)
    IN [NoOp EXCEPT !.op = "get", !.q = q, !.res = r[1], !.ok = r[2],
                    !.changed = (c2 # c),
                    !.held = (key(q) \in DOMAIN c), !.follows = f,
                    !.put = IF f THEN l.v ELSE NilMsg,
                    !.again = g, !.same = (g /\ SameButTTL(l.res, r[1]))]

\* The wall clock moves on by a tick, a second, or a day.
Steps == {1, Second, maxTTL}

Tick(d) ==
    /\ advances < MaxAdvances
    /\ advances' = advances + 1
    /\ wall' = wall + d
    /\ last' = [NoOp EXCEPT !.op = "tick"]
    /\ UNCHANGED <<cache, size>>
    /\ UNCHANGED <<lmVars, srvVars, extVars>>

PutOp(q, v) ==
    /\ cache' \in CachePut(cache, size, wall, q, v)
    /\ last' = PutRecord(cache, cache', q, v)
    /\ UNCHANGED <<size, wall, advances>>
    /\ UNCHANGED <<lmVars, srvVars, extVars>>

\* d: the time that passes between the two clock reads of Get.
GetOp(q, d) ==
    /\ d > 0 => advances < MaxAdvances
    /\ advances' = IF d > 0 THEN advances + 1 ELSE advances
    /\ cache' = CacheGetStore(cache, wall, wall + d, q)
    /\ last' = GetRecord(last, cache, cache', q, CacheGet(cache, wall, wall + d, q))
    /\ wall' = wall + d
    /\ UNCHANGED size
    /\ UNCHANGED <<lmVars, srvVars, extVars>>

\* op: the operation; k, v: its arguments; res, ok: what a Get returned;
\* follows: a Get that came right after a Put for the same key, v then being
\* the value of that Put.
NoLMOp == [op |-> "none", k |-> 0, v |-> 0, res |-> 0, ok |-> FALSE,
           follows |-> FALSE]

\* The LRU/MFA cache before NewCache.
LMIdle ==
    /\ lru = <<>>
    /\ mfa = <<>>
    /\ lmSize = 0
    /\ lmT = 0
    /\ lmLast = NoLMOp

\* The server before NewServer.
ServerIdle ==
    /\ pools = 0
    /\ rq = <<>>
    /\ task = <<>>
    /\ fan = <<>>
    /\ reply = <<>>
    /\ nreq = 0
    /\ ndeq = 0

\* The response cache before New.
CacheIdle ==
    /\ cache = <<>>
    /\ size = 0
    /\ wall = 0
    /\ advances = 0
    /\ last = NoOp

InitCache ==
    /\ cache = <<>>
    /\ size \in 1..MaxSize
    /\ wall = 0
    /\ advances = 0
    /\ last = NoOp
    /\ LMIdle
    /\ ServerIdle
    /\ ExtIdle

NextCache ==
    \/ \E d \in Steps : Tick(d)
    \/ \E q \in Queries : \E v \in ResponsesTo(q) : PutOp(q, v)
    \/ \E q \in Queries, d \in {0, 1} : GetOp(q, d)

SpecCache == InitCache /\ [][NextCache]_vars

(***************************************************************************)
(* The LRU/MFA cache on its own: NewCache(size), then any Puts and Gets.   *)
(* Each operation reads the clock with now(), which counts c.t up.         *)
(***************************************************************************)
LMPutOp(k, v) ==
    /\ lmT < MaxLMOps
    /\ lmT' = lmT + 1
    /\ \E r \in LMPut(lru, mfa, lmSize, lmT', k, v) :
         /\ lru' = r[1]
         /\ mfa' = r[2]
    /\ lmLast' = [NoLMOp EXCEPT !.op = "put", !.k = k, !.v = v]
    /\ UNCHANGED lmSize
    /\ UNCHANGED <<cacheVars, srvVars, extVars>>

LMGetOp(k) ==
    /\ lmT < MaxLMOps
    /\ lmT' = lmT + 1
    /\ LET r == LMGet(lru, mfa, lmT', k)
       IN /\ lru' = r[1]
          /\ mfa' = r[2]
          /\ lmLast' = [NoLMOp EXCEPT !.op = "get", !.k = k, !.res = r[3], !.ok = r[4],
                                       !.follows = (lmLast.op = "put" /\ lmLast.k = k),
                                       !.v = IF lmLast.op = "put" /\ lmLast.k = k
                                             THEN lmLast.v ELSE 0]
    /\ UNCHANGED lmSize
    /\ UNCHANGED <<cacheVars, srvVars, extVars>>

InitLM ==
    /\ lmSize \in 2..MaxLMSize
    /\ lru = <<>>
    /\ mfa = <<>>
    /\ lmT = 0
    /\ lmLast = NoLMOp
    /\ CacheIdle
    /\ ServerIdle
    /\ ExtIdle

NextLM ==
    \/ \E k \in LMKeys, v \in Values : LMPutOp(k, v)
    \/ \E k \in LMKeys : LMGetOp(k)

SpecLM == InitLM /\ [][NextLM]_vars

(***************************************************************************)
(* The server (proxy/server.go).  Task 0 is the refresher; tasks           *)
(* 1..NumHandlers run ServeDNS, one query after the other.  A task's       *)
(* record holds its position pc and its locals:                            *)
(*   q      the query it works on                                          *)
(*   m      the message it holds (getAnswer's m, the forwarders' m)        *)
(*   c      the retry counter of forwardMessageAndCacheResponse            *)
(* and, for stating properties, what it did for the query at hand:         *)
(*   lk     what cache.get returned (<<message, ok>>)                      *)
(*   calls  how often it called forwardMessageAndGetResponse               *)
(*   enq    how often it tried to enqueue on the refresh queue             *)
(*   sent   whether that went through ("queued") or not ("dropped")        *)
(*   anyOk  whether an exchange of one of its fan-outs yielded a response  *)
(*   fwd    what its last forwardMessageAndGetResponse returned            *)
(*   wrote  whether its s.cache.put changed the cache's store              *)
(***************************************************************************)
refreshQueueSize == 2048
defaultCacheSize == 65536
defaultPools == 2

\* for c := 0; m == nil && c < 2; c++
retries == 2

Refresher == 0
Handlers == 1..NumHandlers
Tasks == {Refresher} \cup Handlers
Pools == 1..pools

NoQuery == [id |-> 0, question |-> 0]

\* The queries clients send, and what an exchange with an upstream yields:
\* nil (an error or a nil response) or a response to the query.
ClientQueries == [id : {1}, question : {1}]
UpAnswers == {<<>>, <<1>>}
Exchanged(q) ==
    {NilMsg} \cup {r \in ResponsesTo(q) : r.answer \in UpAnswers /\ ~r.truncated}

NoLookup == <<NilMsg, FALSE>>

IdleTask(pc) == [pc |-> pc, q |-> NoQuery, m |-> NilMsg, c |-> 0,
                 lk |-> NoLookup, calls |-> 0, enq |-> 0, sent |-> "no",
                 anyOk |-> FALSE,
                 fwd |-> NilMsg, wrote |-> FALSE]

\* No fan-out: no channel, no goroutines.
NoFan == [resps |-> <<>>, arm |-> <<>>, r |-> <<>>, got |-> 0]

NoReply == [kind |-> "none", m |-> NilMsg]

(***************************************************************************)
(* ServeDNS and getAnswer.                                                 *)
(***************************************************************************)
\* A query arrives and ServeDNS is called with it; none arrives once the
\* listeners are shut down.
Arrive(h, q) ==
    /\ task[h].pc = "idle"
    /\ closer.pc = "wait"
    /\ nreq < MaxRequests
    /\ nreq' = nreq + 1
    /\ task' = [task EXCEPT ![h] = [IdleTask("getAnswer") EXCEPT !.q = q]]
    /\ reply' = [reply EXCEPT ![h] = NoReply]
    /\ UNCHANGED <<pools, rq, fan, ndeq>>
    /\ UNCHANGED <<cacheVars, lmVars, extVars>>

DispatchStaleForwards(r) ==
    IF r[2] THEN "ServeDNS" ELSE "forward"

\* getAnswer, after m, ok := s.cache.get(q): where it goes on.
Dispatch(r) ==
    IF r[2] THEN "ServeDNS"
    ELSE IF r[1] # NilMsg THEN "refresh"
    ELSE "forward"

\* getAnswer up to its dispatch on what s.cache.get(q) returned.
GetAnswer(h) ==
    /\ task[h].pc = "getAnswer"
    /\ LET r == CacheGet(cache, wall, wall, task[h].q)
       IN /\ task' = [task EXCEPT ![h].pc = Dispatch(r), ![h].m = r[1], ![h].lk = r]
          /\ cache' = CacheGetStore(cache, wall, wall, task[h].q)
          /\ last' = GetRecord(last, cache, cache', task[h].q, r)
    /\ UNCHANGED <<size, wall, advances>>
    /\ UNCHANGED <<pools, rq, fan, reply, nreq, ndeq>>
    /\ UNCHANGED <<lmVars, extVars>>

RefreshUnbounded(queue, q) == Append(queue, q)

\* s.refresh(q): select { case s.rq <- q: default: }
refresh(queue, q) ==
    IF Len(queue) < refreshQueueSize THEN Append(queue, q) ELSE queue

\* getAnswer's stale branch: s.refresh(q); return m
Refresh(h) ==
    /\ task[h].pc = "refresh"
    /\ rq' = refresh(rq, task[h].q)
    /\ task' = [task EXCEPT ![h].pc = "ServeDNS", ![h].enq = @ + 1,
                             ![h].sent = IF rq' # rq THEN "queued" ELSE "dropped"]
    /\ UNCHANGED <<pools, fan, reply, nreq, ndeq>>
    /\ UNCHANGED <<cacheVars, lmVars, extVars>>

ReplyAlwaysWrites(m) == [kind |-> "msg", m |-> m]

\* ServeDNS after getAnswer: dns.HandleFailed(w, q) on nil, else w.WriteMsg(m).
ReplyOf(m) ==
    IF m = NilMsg THEN [kind |-> "servfail", m |-> NilMsg]
    ELSE [kind |-> "msg", m |-> m]

ServeDNS(h) ==
    /\ task[h].pc = "ServeDNS"
    /\ reply' = [reply EXCEPT ![h] = ReplyOf(task[h].m)]
    /\ task' = [task EXCEPT ![h].pc = "idle"]
    /\ UNCHANGED <<pools, rq, fan, nreq, ndeq>>
    /\ UNCHANGED <<cacheVars, lmVars, extVars>>

(***************************************************************************)
(* forwardMessageAndGetResponse: a channel of len(s.pools) slots, one      *)
(* goroutine per pool that exchanges and sends, and the loop that receives *)
(* up to len(s.pools) values.  A goroutine is at "exchange", at "sendNil"  *)
(* (resps <- nil), at "sendR" (resps <- r) or "done".  The goroutines of a *)
(* call that has returned run on until the task moves on; the model        *)
(* follows them no further.                                                *)
(***************************************************************************)
\* The call: make the channel, start the goroutines.
ForwardOnce(t) ==
    /\ task[t].pc = "forward"
    /\ task' = [task EXCEPT ![t].pc = "receive", ![t].calls = @ + 1]
    /\ fan' = [fan EXCEPT ![t] = [resps |-> <<>>,
                                   arm |-> [p \in Pools |-> "exchange"],
                                   r |-> [p \in Pools |-> NilMsg],
                                   got |-> 0]]
    /\ UNCHANGED <<pools, rq, reply, nreq, ndeq>>
    /\ UNCHANGED <<cacheVars, lmVars, extVars>>

AfterExchangeReturns(r) == IF r = NilMsg THEN "done" ELSE "sendR"

\* r, err := s.exchangeMessages(p, q); if err != nil || r == nil { ... }
AfterExchange(r) == IF r = NilMsg THEN "sendNil" ELSE "sendR"

\* An upstream that "answers" every query with a record, one that is "down"
\* and fails every exchange, or "any".
Upstream(p) == IF p \in DOMAIN upstreams THEN upstreams[p] ELSE "any"

ArmExchange(t, p) ==
    /\ p \in DOMAIN fan[t].arm
    /\ fan[t].arm[p] = "exchange"
    /\ \E r \in Exchanged(task[t].q) :
         /\ (Upstream(p) = "answers" /\ p \notin closer.shut)
                => (r # NilMsg /\ r.answer # <<>>)
         /\ Upstream(p) = "down" => r = NilMsg
         /\ p \in closer.shut => r = NilMsg
         /\ fan' = [fan EXCEPT ![t].arm[p] = AfterExchange(r), ![t].r[p] = r]
         /\ task' = [task EXCEPT ![t].anyOk = @ \/ r # NilMsg]
    /\ UNCHANGED <<pools, rq, reply, nreq, ndeq>>
    /\ UNCHANGED <<cacheVars, lmVars, extVars>>

\* A send on the buffered channel goes through when a slot is free.
CanSend(t) == Len(fan[t].resps) < pools

\* resps <- nil, and on to resps <- r
ArmSendNil(t, p) ==
    /\ p \in DOMAIN fan[t].arm
    /\ fan[t].arm[p] = "sendNil"
    /\ CanSend(t)
    /\ fan' = [fan EXCEPT ![t].arm[p] = "sendR", ![t].resps = Append(@, NilMsg)]
    /\ UNCHANGED <<pools, rq, task, reply, nreq, ndeq>>
    /\ UNCHANGED <<cacheVars, lmVars, extVars>>

\* resps <- r
ArmSendR(t, p) ==
    /\ p \in DOMAIN fan[t].arm
    /\ fan[t].arm[p] = "sendR"
    /\ CanSend(t)
    /\ fan' = [fan EXCEPT ![t].arm[p] = "done", ![t].resps = Append(@, fan[t].r[p])]
    /\ UNCHANGED <<pools, rq, task, reply, nreq, ndeq>>
    /\ UNCHANGED <<cacheVars, lmVars, extVars>>

\* One round of: for c := 0; c < len(s.pools); c++ { if r := <-resps; r != nil
\* { return r } }; return nil
Receive(t) ==
    /\ task[t].pc = "receive"
    /\ fan[t].resps # <<>>
    /\ LET r == Head(fan[t].resps)
           done == r # NilMsg \/ fan[t].got + 1 >= pools
       IN /\ fan' = [fan EXCEPT ![t].resps = Tail(@), ![t].got = @ + 1]
          /\ task' = [task EXCEPT ![t].pc = IF done THEN "returned" ELSE "receive",
                                   ![t].m = r, ![t].fwd = r]
    /\ UNCHANGED <<pools, rq, reply, nreq, ndeq>>
    /\ UNCHANGED <<cacheVars, lmVars, extVars>>

(***************************************************************************)
(* forwardMessageAndCacheResponse.                                         *)
(***************************************************************************)
RetryOnceMore(m, c) == m = NilMsg /\ c <= retries

\* for c := 0; m == nil && c < 2; c++
RetryAgain(m, c) == m = NilMsg /\ c < retries

\* Where a task goes when forwardMessageAndCacheResponse returns.
Caller(t) == IF t = Refresher THEN "refresher" ELSE "ServeDNS"

\* After a forwardMessageAndGetResponse has returned: once more, give up
\* (return nil), or go on to s.cache.put(q, m).
Returned(t) ==
    /\ task[t].pc = "returned"
    /\ task' = [task EXCEPT
                  ![t].pc = IF RetryAgain(task[t].m, task[t].c) THEN "forward"
                            ELSE IF task[t].m = NilMsg THEN Caller(t)
                            ELSE "put",
                  ![t].c = IF RetryAgain(task[t].m, task[t].c) THEN @ + 1 ELSE @]
    /\ fan' = [fan EXCEPT ![t] = NoFan]
    /\ UNCHANGED <<pools, rq, reply, nreq, ndeq>>
    /\ UNCHANGED <<cacheVars, lmVars, extVars>>

\* s.cache.put(q, m); return m
Put(t) ==
    /\ task[t].pc = "put"
    /\ cache' \in CachePut(cache, size, wall, task[t].q, task[t].m)
    /\ last' = PutRecord(cache, cache', task[t].q, task[t].m)
    /\ task' = [task EXCEPT ![t].pc = Caller(t), ![t].wrote = (cache' # cache)]
    /\ UNCHANGED <<size, wall, advances>>
    /\ UNCHANGED <<pools, rq, fan, reply, nreq, ndeq>>
    /\ UNCHANGED <<lmVars, extVars>>

(***************************************************************************)
(* The refresher: case q := <-s.rq: s.forwardMessageAndCacheResponse(q)    *)
(***************************************************************************)
Dequeue ==
    /\ task[Refresher].pc = "refresher"
    /\ rq # <<>>
    /\ ndeq < MaxDequeues
    /\ ndeq' = ndeq + 1
    /\ rq' = Tail(rq)
    /\ task' = [task EXCEPT ![Refresher] = [IdleTask("forward") EXCEPT !.q = Head(rq)]]
    /\ UNCHANGED <<pools, fan, reply, nreq>>
    /\ UNCHANGED <<cacheVars, lmVars, extVars>>

(***************************************************************************)
(* The server after NewServer and Run: an empty cache, the refresher       *)
(* waiting, the handlers idle.                                             *)
(***************************************************************************)
ServerStarted(n, queue) ==
    /\ pools = n
    /\ rq = queue
    /\ task = [t \in Tasks |-> IF t = Refresher THEN IdleTask("refresher") ELSE IdleTask("idle")]
    /\ fan = [t \in Tasks |-> NoFan]
    /\ reply = [h \in Handlers |-> NoReply]
    /\ nreq = 0
    /\ ndeq = 0

CacheStarted ==
    /\ cache = <<>>
    /\ size = defaultCacheSize
    /\ wall = 0
    /\ advances = 0
    /\ last = NoOp

Init ==
    /\ ServerStarted(defaultPools, <<>>)
    /\ CacheStarted
    /\ LMIdle
    /\ ExtIdle

Forwarding(t) ==
    \/ ForwardOnce(t)
    \/ \E p \in 1..MaxPools : ArmExchange(t, p)
    \/ \E p \in 1..MaxPools : ArmSendNil(t, p)
    \/ \E p \in 1..MaxPools : ArmSendR(t, p)
    \/ Receive(t)
    \/ Returned(t)
    \/ Put(t)

Serving(h) ==
    \/ \E q \in ClientQueries : Arrive(h, q)
    \/ GetAnswer(h)
    \/ Refresh(h)
    \/ ServeDNS(h)

Next ==
    \/ \E h \in Handlers : Serving(h)
    \/ \E t \in Tasks : Forwarding(t)
    \/ Dequeue
    \/ Tick(maxTTL)

Spec == Init /\ [][Next]_vars

(***************************************************************************)
(* The handlers' path through the resolver on its own, for a server with   *)
(* any number of pools from 1 to MaxPools: no time passes and nothing is   *)
(* stale, so the refresh queue stays empty and the refresher waits.        *)
(***************************************************************************)
InitFwd ==
    /\ \E n \in 1..MaxPools : ServerStarted(n, <<>>)
    /\ CacheStarted
    /\ LMIdle
    /\ ExtIdle

NextFwd ==
    \/ \E h \in Handlers, q \in ClientQueries : Arrive(h, q)
    \/ \E h \in Handlers : GetAnswer(h)
    \/ \E h \in Handlers : ServeDNS(h)
    \/ \E h \in Handlers : Forwarding(h)

SpecFwd == InitFwd /\ [][NextFwd]_vars

(***************************************************************************)
(* The server with a refresher that has fallen behind: the cache holds an  *)
(* answer that expired a day ago, and the refresh queue holds all but one  *)
(* of the entries it has room for.                                         *)
(***************************************************************************)
Backlog == [i \in 1..(refreshQueueSize - 1) |-> [id |-> 1, question |-> 1]]

Expired == [m |-> Canonical([id |-> 1, question |-> 1, answer |-> <<1>>,
                             truncated |-> FALSE, compress |-> FALSE]),
            exp |-> Second]

InitQueue ==
    /\ ServerStarted(1, Backlog)
    /\ cache = [k \in {1} |-> Expired]
    /\ size = defaultCacheSize
    /\ wall = maxTTL
    /\ advances = 0
    /\ last = NoOp
    /\ LMIdle
    /\ ExtIdle

\* No time passes meanwhile.
NextQueue ==
    \/ \E h \in Handlers : Serving(h)
    \/ \E t \in Tasks : Forwarding(t)
    \/ Dequeue

SpecQueue == InitQueue /\ [][NextQueue]_vars

(***************************************************************************)
(* Properties of the response cache, checked under SpecCache.              *)
(***************************************************************************)
AllTTL(m, P(_)) == \A i \in 1..Len(m.answer) : P(m.answer[i])

\* C4: a put(q, v) whose v has at least one answer record and a minimum
\* answer TTL above zero makes the get that follows it at once, for any query
\* with q's question, a fresh hit whose transaction id is that query's id.
PutThenGetIsFreshHit ==
    (last.op = "get" /\ last.follows /\ Len(last.put.answer) > 0
        /\ MinOf(last.put.answer) > 0)
    => (last.ok /\ last.res # NilMsg /\ last.res.id = last.q.id)

\* A get with another transaction id than the put before it had.
PutThenGetWitness ==
    /\ last.op = "get" /\ last.follows /\ Len(last.put.answer) > 0
    /\ MinOf(last.put.answer) > 0
    /\ last.put.id # last.q.id
    /\ last.ok /\ last.res.id = last.q.id

\* C6: the answer TTLs a fresh hit returns are above zero and at most the
\* least TTL of the stored response; those a stale hit returns are all 60.
\* (Stated for stored responses whose least TTL is itself above zero.)
ReturnedTTLs ==
    (last.op = "get" /\ last.res # NilMsg
        /\ MinOf(cache[key(last.q)].m.answer) > 0) =>
        IF last.ok
        THEN AllTTL(last.res, LAMBDA t :
                 t > 0 /\ t <= MinOf(cache[key(last.q)].m.answer))
        ELSE AllTTL(last.res, LAMBDA t : t = staleTTL)

\* C7: the entry a put stores expires at the insertion time plus the least
\* answer TTL, or plus 24 hours if that is less.
ExpirationCapped ==
    (last.op = "put" /\ Len(last.v.answer) > 0) =>
        /\ key(last.q) \in DOMAIN cache
        /\ cache[key(last.q)].exp
              = wall + Min(MinOf(last.v.answer) * Second, 24 * 3600 * Second)

\* A put whose answer TTLs are all 24 hours or more, stored to expire 24
\* hours after the insertion.
ExpirationCappedWitness ==
    /\ last.op = "put" /\ Len(last.v.answer) > 1
    /\ AllTTL(last.v, LAMBDA t : t > DaySeconds)
    /\ wall > 0
    /\ cache[key(last.q)].exp = wall + maxTTL

\* C15: a get changes nothing of what is stored, neither the number of
\* entries nor an entry's message or expiration, whatever the id of the
\* query and whether the entry is fresh or stale; a get right after a get
\* for the same question returns the same response but for the id and the
\* TTLs.
GetLeavesStoreAlone ==
    last.op = "get" =>
        /\ ~last.changed
        /\ last.again => last.same

\* A second get in a row for an entry that has expired: both return TTLs
\* of 60 and the stored record still has its TTL of 1.
GetLeavesStoreAloneWitness ==
    /\ last.op = "get" /\ last.again /\ last.same
    /\ last.res # NilMsg /\ ~last.ok
    /\ AllTTL(last.res, LAMBDA t : t = staleTTL)
    /\ cache[key(last.q)].m.answer = <<1>>
    /\ cache[key(last.q)].m.id # last.q.id

(***************************************************************************)
(* Properties of the LRU/MFA cache, checked under SpecLM.                  *)
(***************************************************************************)
\* C8: a cache constructed with size >= 2 never holds more items than its
\* capacity, and its capacity is the size it was constructed with.
LenWithinCap ==
    lmSize >= 2 =>
        /\ LMLen(lru, mfa) <= LMCap(lmSize)
        /\ LMCap(lmSize) = lmSize

\* A cache of odd size filled to its capacity by a Put that overflowed the
\* LRU store.
LenWithinCapWitness ==
    /\ lmSize % 2 = 1
    /\ lmLast.op = "put"
    /\ LMLen(lru, mfa) = lmSize
    /\ storeLen(mfa) = mfaCap(lmSize)

(***************************************************************************)
(* Properties of the resolver.                                             *)
(***************************************************************************)
\* A task that has left forwardMessageAndCacheResponse.
Forwarded(t) ==
    task[t].calls > 0 /\ task[t].pc \in {"ServeDNS", "idle", "refresher"}

\* A handler that has left getAnswer.
Resolved(h) ==
    task[h].pc = "ServeDNS" \/ (task[h].pc = "idle" /\ reply[h].kind # "none")

\* C1: forwardMessageAndGetResponse returns nil only when the exchange of
\* every pool yielded nil: when it has returned nil, no goroutine of the call
\* holds a response.
ForwardOnceNilOnlyIfAllNil ==
    \A t \in Tasks :
        (task[t].pc = "returned" /\ task[t].m = NilMsg) =>
            \A p \in DOMAIN fan[t].r : fan[t].r[p] = NilMsg

\* C2: forwardMessageAndCacheResponse calls forwardMessageAndGetResponse at
\* most 3 times, calls it again only after a nil, and has called it 3 times
\* when it gives up with nil.
ForwardCallsBounded ==
    \A t \in Tasks :
        /\ task[t].calls <= 3
        /\ (task[t].pc = "forward" /\ task[t].calls > 0) => task[t].fwd = NilMsg
        /\ task[t].pc = "put" => task[t].fwd # NilMsg
        /\ (Forwarded(t) /\ task[t].fwd = NilMsg) => task[t].calls = 3

\* A task that gave up after three calls that all returned nil.
ForwardCallsWitness ==
    \E t \in Tasks : Forwarded(t) /\ task[t].fwd = NilMsg /\ task[t].calls = 3

\* C3: getAnswer returns the cached message on a fresh hit, forwarding and
\* enqueuing nothing; on a stale hit it tries one enqueue and returns the
\* stale message, forwarding nothing; only on a miss does it forward, and it
\* returns what forwardMessageAndCacheResponse returned.
GetAnswerDispatch ==
    \A h \in Handlers :
        /\ task[h].calls > 0 => task[h].lk[1] = NilMsg
        /\ task[h].enq > 0 => (task[h].lk[1] # NilMsg /\ ~task[h].lk[2])
        /\ Resolved(h) =>
            IF task[h].lk[2]
            THEN task[h].calls = 0 /\ task[h].enq = 0 /\ task[h].m = task[h].lk[1]
            ELSE IF task[h].lk[1] # NilMsg
            THEN task[h].calls = 0 /\ task[h].enq = 1 /\ task[h].m = task[h].lk[1]
            ELSE task[h].calls >= 1 /\ task[h].enq = 0 /\ task[h].m = task[h].fwd

\* A handler that answered from a stale entry and queued its query.
GetAnswerDispatchWitness ==
    \E h \in Handlers :
        /\ Resolved(h)
        /\ task[h].lk[1] # NilMsg /\ ~task[h].lk[2]
        /\ task[h].sent = "queued"
        /\ rq # <<>>
        /\ reply[h] = [kind |-> "msg", m |-> task[h].lk[1]]

\* The part of C5 that holds as stated: a put of a response without answer
\* records leaves the store as it was, and a handler that missed writes to
\* its client the response the upstreams gave, with or without answers.
EmptyNotCachedButServed ==
    /\ (last.op = "put" /\ Len(last.v.answer) = 0) => ~last.changed
    /\ \A h \in Handlers :
         (reply[h].kind # "none" /\ task[h].lk[1] = NilMsg /\ task[h].fwd # NilMsg)
             => reply[h] = [kind |-> "msg", m |-> task[h].fwd]

\* C5 as stated: ... and the get that follows such a put at once is a miss.
EmptyPutThenMiss ==
    /\ EmptyNotCachedButServed
    /\ (last.op = "get" /\ last.follows /\ Len(last.put.answer) = 0)
           => (last.res = NilMsg /\ ~last.ok)

\* C5, amended: a put of a response without answer records leaves the store
\* as it was, so the get that follows it at once is a miss if the store did
\* not hold the key before; a handler that missed still writes the response
\* without answers to its client.
EmptyPutThenMissIfNotHeld ==
    /\ EmptyNotCachedButServed
    /\ (last.op = "get" /\ last.follows /\ Len(last.put.answer) = 0 /\ ~last.held)
           => (last.res = NilMsg /\ ~last.ok)

\* A handler missed, was given a response without answers, did not cache it
\* and sent it to its client.
EmptyPutWitness ==
    /\ last.op = "put" /\ Len(last.v.answer) = 0 /\ ~last.changed
    /\ \E h \in Handlers :
         /\ task[h].lk[1] = NilMsg
         /\ reply[h] = [kind |-> "msg", m |-> last.v]
         /\ key(task[h].q) \notin DOMAIN cache

\* C9: the refresh queue never holds more than refreshQueueSize entries; an
\* enqueue is always possible at once, appends the query when the queue is
\* not full, and leaves the queue as it is when it is full.
EnqueueStep(h) == task[h].pc = "refresh" /\ task'[h].pc # "refresh"

EnqueueNeverBlocks ==
    /\ [](Len(rq) <= 2048)
    /\ [](\A h \in Handlers : task[h].pc = "refresh" => ENABLED Refresh(h))
    /\ [][\A h \in Handlers : EnqueueStep(h) =>
            IF Len(rq) < 2048 THEN rq' = Append(rq, task[h].q) ELSE rq' = rq]_vars

\* A handler found the queue full and went on without its query queued.
EnqueueDroppedWitness ==
    \E h \in Handlers :
        /\ task[h].sent = "dropped"
        /\ Len(rq) = 2048
        /\ reply[h].kind = "msg"

\* C10: a handler writes the message getAnswer returned, or a server failure
\* when getAnswer returned nil; when every exchange of every try yielded nil
\* it is the server failure, after 3 tries, and the handler has left the
\* cache as it was.
OneOfTwoOutcomes ==
    \A h \in Handlers :
        reply[h].kind # "none" =>
            /\ reply[h].kind \in {"msg", "servfail"}
            /\ task[h].m # NilMsg => reply[h] = [kind |-> "msg", m |-> task[h].m]
            /\ task[h].m = NilMsg => reply[h] = [kind |-> "servfail", m |-> NilMsg]
            /\ (task[h].lk[1] = NilMsg /\ ~task[h].anyOk) =>
                 /\ reply[h].kind = "servfail"
                 /\ task[h].calls = 3
                 /\ ~task[h].wrote

\* Every upstream of three failed three times and the client was sent a
\* server failure.
ServfailWitness ==
    \E h \in Handlers :
        /\ pools = 3
        /\ reply[h].kind = "servfail"
        /\ ~task[h].anyOk /\ task[h].calls = 3
        /\ ~task[h].wrote /\ cache = <<>>

(***************************************************************************)
(* The coarse clock (Server.timer, Server.now).  A time.Ticker fires every *)
(* resolutionMilliseconds; its channel holds one tick, and a tick that     *)
(* finds the channel full is dropped.                                      *)
(***************************************************************************)
resolutionMilliseconds == 500
Period == (resolutionMilliseconds * Second) \div 1000

\* connectionTimeout = 10 * time.Second
connectionTimeout == 10 * Second

\* Time passes, by one period of the ticker; the ticker fires on time.
Elapse ==
    /\ wall < startTime + MaxElapse * Period
    /\ nextFire > wall
    /\ wall' = wall + Period
    /\ UNCHANGED <<cache, size, advances, last>>
    /\ UNCHANGED <<lmVars, srvVars, clockVars, connVars, envVars, heapVars>>

\* The ticker fires: the tick's time goes to t.C if there is room.
TickerFire ==
    /\ timerPc = "running"
    /\ nextFire <= wall
    /\ tickC' = IF tickC = <<>> THEN <<nextFire>> ELSE tickC
    /\ nextFire' = nextFire + Period
    /\ UNCHANGED <<currentTime, startTime, timerPc, ctx>>
    /\ UNCHANGED <<cacheVars, lmVars, srvVars, connVars, envVars, heapVars>>

\* timer: case t := <-t.C: s.currentTime = t
TimerRecv ==
    /\ timerPc = "running"
    /\ tickC # <<>>
    /\ currentTime' = Head(tickC)
    /\ tickC' = <<>>
    /\ UNCHANGED <<startTime, nextFire, timerPc, ctx>>
    /\ UNCHANGED <<cacheVars, lmVars, srvVars, connVars, envVars, heapVars>>

\* Server.now
now == currentTime

\* No tick has fired since the ticker was made.
BeforeFirstTick == nextFire = startTime + Period

(***************************************************************************)
(* The connection pool of one upstream: newPool(connectionsPerUpstream,    *)
(* connector).  Of the pool the model keeps two numbers: live, the         *)
(* connections dialled and not yet closed, and idle, those of them that    *)
(* wait in the pool.                                                       *)
(***************************************************************************)
connectionsPerUpstream == 5

\* acquire: an idle connection if there is one, else a new one if the live
\* count is below max (a dial may fail, using up no slot), else wait.  The
\* outcomes <<kind, live, idle>>; none while the caller has to wait.
poolAcquire(lv, idl, max) ==
    IF idl > 0 THEN {<<"conn", lv, idl - 1>>}
    ELSE IF lv < max THEN {<<"conn", lv + 1, idl>>, <<"dialFailure", lv, idl>>}
    ELSE {}

\* release: the connection is idle again.
poolRelease(lv, idl) == <<lv, idl + 1>>

\* c.Close(): the connection is closed and gone.
connClose(lv, idl) == <<lv - 1, idl>>

(***************************************************************************)
(* exchangeMessages(p, q), by one of the goroutines that exchange with the *)
(* pool: "get" while in p.get(), "held" from the moment it has the         *)
(* connection and has set its deadline.                                    *)
(***************************************************************************)
Exchangers == 1..NumExchangers

IdleExchange == [pc |-> "idle", now |-> 0, dl |-> 0, early |-> FALSE,
                 ahead |-> FALSE]

\* exchangeMessages is called.
XStart(e) ==
    /\ xch[e].pc = "idle"
    /\ xch' = [xch EXCEPT ![e].pc = "get"]
    /\ UNCHANGED <<live, idleConns, lastX>>
    /\ UNCHANGED <<cacheVars, lmVars, srvVars, clockVars, envVars, heapVars>>

\* c, err := p.get(); if err != nil { return nil, err };
\* _ = c.SetDeadline(s.now().Add(connectionTimeout))
XGet(e) ==
    /\ xch[e].pc = "get"
    /\ \E o \in poolAcquire(live, idleConns, connectionsPerUpstream) :
         /\ live' = o[2]
         /\ idleConns' = o[3]
         /\ IF o[1] = "conn"
            THEN /\ xch' = [xch EXCEPT ![e] = [pc |-> "held", now |-> now,
                                               dl |-> now + connectionTimeout,
                                               early |-> BeforeFirstTick,
                                               ahead |-> now + connectionTimeout > wall]]
                 /\ UNCHANGED lastX
            ELSE /\ xch' = [xch EXCEPT ![e] = IdleExchange]
                 /\ lastX' = [NoExchange EXCEPT !.cause = o[1], !.err = TRUE]
    /\ UNCHANGED <<cacheVars, lmVars, srvVars, clockVars, envVars, heapVars>>

\* What becomes of c.WriteMsg(q) and c.ReadMsg(): with the deadline passed
\* they fail at once; else the write fails, the read fails, the deadline
\* passes meanwhile, the response read is nil, or all is well.
Outcomes(dl, t) ==
    IF dl <= t THEN {"deadlineExceeded"}
    ELSE {"none", "writeFailure", "readFailure", "deadlineExceeded", "nilResponse"}

\* What exchangeMessages returns: (resp, nil) or (nil, err).
Returns(cause) == [resp |-> cause = "none", err |-> cause # "none"]

DisposeAlwaysPuts(err) == "put"

DisposeForgets(err) == IF err THEN "forget" ELSE "put"

\* defer func() { if err != nil { c.Close(); return }; p.put(c) }()
Dispose(err) == IF err THEN "close" ELSE "put"

\* The write, the read and the return, the deferred function included.
XFinish(e) ==
    /\ xch[e].pc = "held"
    /\ \E cause \in Outcomes(xch[e].dl, wall) :
         LET ret == Returns(cause)
             how == Dispose(ret.err)
             pl == CASE how = "close" -> connClose(live, idleConns)
                     [] how = "put" -> poolRelease(live, idleConns)
                     [] OTHER -> <<live, idleConns>>
         IN /\ live' = pl[1]
            /\ idleConns' = pl[2]
            /\ lastX' = [acq |-> TRUE, cause |-> cause, resp |-> ret.resp,
                         err |-> ret.err,
                         closes |-> IF how = "close" THEN 1 ELSE 0,
                         puts |-> IF how = "put" THEN 1 ELSE 0,
                         early |-> xch[e].early, now |-> xch[e].now,
                         ahead |-> xch[e].ahead]
    /\ xch' = [xch EXCEPT ![e] = IdleExchange]
    /\ UNCHANGED <<cacheVars, lmVars, srvVars, clockVars, envVars, heapVars>>

Exchanging(e) == XStart(e) \/ XGet(e) \/ XFinish(e)

(***************************************************************************)
(* The clock and one goroutine that exchanges, from the moment Run has     *)
(* started the timer and the listeners.                                    *)
(***************************************************************************)
\* The wall clock when the server starts, counted from the zero time.
StartTimes == {Hour, Hour + 1}

PoolStarted ==
    /\ live = 0
    /\ idleConns = 0
    /\ xch = [e \in Exchangers |-> IdleExchange]
    /\ lastX = NoExchange

\* go s.timer(ctx); ...; s.startTime = time.Now()
ClockStarted(t) ==
    /\ startTime = t
    /\ tickC = <<>>
    /\ nextFire = t + Period
    /\ timerPc = "running"
    /\ ctx = "live"

InitClock ==
    /\ wall \in StartTimes
    /\ ClockStarted(wall)
    /\ currentTime = ZeroTime
    /\ PoolStarted
    /\ cache = <<>>
    /\ size = 0
    /\ advances = 0
    /\ last = NoOp
    /\ LMIdle
    /\ ServerIdle
    /\ NoPromise
    /\ CloserWaiting
    /\ HeapIdle

NextClock ==
    \/ Elapse
    \/ TickerFire
    \/ TimerRecv
    \/ Exchanging(1)

SpecClock == InitClock /\ [][NextClock]_vars

\* C11: a read of the clock before the ticker's first tick returns the time
\* the server started at, and the deadline set from it, 10 s later, lies in
\* the future.
EarlyReadIsStartTime ==
    (lastX.acq /\ lastX.early) =>
        /\ lastX.now = startTime
        /\ lastX.ahead

(***************************************************************************)
(* The server with its two default pools, each upstream either answering   *)
(* every query with a record or down, and at least one answering; the      *)
(* cache holds an entry that expired a day ago.  The stale hit, the        *)
(* refresh and the refresher's work; every task is scheduled fairly and    *)
(* every exchange returns.                                                 *)
(***************************************************************************)
InitRefresh ==
    /\ ServerStarted(defaultPools, <<>>)
    /\ cache = [k \in {1} |-> Expired]
    /\ size = defaultCacheSize
    /\ wall = maxTTL
    /\ advances = 0
    /\ last = NoOp
    /\ LMIdle
    /\ ClockIdle
    /\ ConnIdle
    /\ upstreams \in [1..defaultPools -> {"answers", "down"}]
    /\ \E p \in 1..defaultPools : upstreams[p] = "answers"
    /\ CloserWaiting
    /\ HeapIdle

SpecRefresh ==
    /\ InitRefresh
    /\ [][NextQueue]_vars
    /\ WF_vars(Dequeue)
    /\ \A t \in Tasks : WF_vars(Forwarding(t))
    /\ \A h \in Handlers : WF_vars(GetAnswer(h) \/ Refresh(h) \/ ServeDNS(h))

\* The entry cached for query q is fresh: a get would be a fresh hit.
Fresh(q) ==
    /\ key(q) \in DOMAIN cache
    /\ cache[key(q)].exp >= wall
    /\ CacheGet(cache, wall, wall, q)[2]

\* C12: a query that was queued after a stale hit is dequeued by the
\* refresher and forwarded, and the entry cached for it is replaced by one
\* that expires later, so that a get after it is a fresh hit: when the
\* refresher is done with the query, the entry is fresh.
RefreshReplacesEntry ==
    (task[Refresher].pc = "refresher" /\ task[Refresher].q # NoQuery)
        => Fresh(task[Refresher].q)

\* The same as a property of behaviours: a queued query leads to a fresh
\* entry.
RefreshLeadsToFresh ==
    \A q \in ClientQueries :
        (\E i \in 1..Len(rq) : rq[i] = q) ~> Fresh(q)

(***************************************************************************)
(* One pool and the goroutines that exchange with it at the same time,     *)
(* while the clock stands still, after its first tick.                     *)
(***************************************************************************)
InitConn ==
    /\ wall = Hour + Period
    /\ ClockStarted(Hour)
    /\ currentTime = wall
    /\ PoolStarted
    /\ cache = <<>>
    /\ size = 0
    /\ advances = 0
    /\ last = NoOp
    /\ LMIdle
    /\ ServerIdle
    /\ NoPromise
    /\ CloserWaiting
    /\ HeapIdle

NextConn == \E e \in Exchangers : Exchanging(e)

SpecConn == InitConn /\ [][NextConn]_vars

\* The exchanges that hold a connection.
Holding == {e \in Exchangers : xch[e].pc = "held"}

DisposedExactlyOnce ==
    /\ lastX.acq => lastX.closes + lastX.puts = 1
    /\ (lastX.acq /\ lastX.cause # "none") =>
          (lastX.closes = 1 /\ lastX.puts = 0 /\ lastX.err /\ ~lastX.resp)
    /\ (lastX.acq /\ lastX.cause = "none") =>
          (lastX.puts = 1 /\ lastX.closes = 0 /\ ~lastX.err /\ lastX.resp)
    /\ ~lastX.acq => (lastX.closes = 0 /\ lastX.puts = 0)

\* An exchange read a nil response, closed its connection and reported the
\* error, while others held theirs.
DisposedExactlyOnceWitness ==
    /\ lastX.acq /\ lastX.cause = "nilResponse"
    /\ lastX.closes = 1 /\ lastX.puts = 0 /\ lastX.err
    /\ Cardinality(Holding) = 2
    /\ live = 2

(***************************************************************************)
(* Shutdown.  Run starts a goroutine that waits for the context to be      *)
(* done, shuts the listeners down and then each pool; the refresher and    *)
(* the timer return when their select takes the case <-ctx.Done().         *)
(***************************************************************************)
\* The root context is cancelled.
Cancel ==
    /\ ctx = "live"
    /\ ctx' = "done"
    /\ UNCHANGED <<currentTime, startTime, tickC, nextFire, timerPc>>
    /\ UNCHANGED <<cacheVars, lmVars, srvVars, connVars, envVars, heapVars>>

\* <-ctx.Done(); for _, s := range servers { _ = s.Shutdown() }
CloserWakes ==
    /\ closer.pc = "wait"
    /\ ctx = "done"
    /\ closer' = [closer EXCEPT !.pc = "pools"]
    /\ UNCHANGED upstreams
    /\ UNCHANGED <<cacheVars, lmVars, srvVars, clockVars, connVars, heapVars>>

\* for _, p := range s.pools { p.shutdown() }: the next pool, in order.
CloserShutsPool ==
    /\ closer.pc = "pools"
    /\ LET p == Cardinality(closer.shut) + 1
       IN closer' = [pc |-> IF p >= pools THEN "done" ELSE "pools",
                     shut |-> closer.shut \cup {p}]
    /\ UNCHANGED upstreams
    /\ UNCHANGED <<cacheVars, lmVars, srvVars, clockVars, connVars, heapVars>>

RefresherIgnoresDone(pc) == pc

\* refresher: case <-ctx.Done(): return
RefresherOnDone(pc) == "stopped"

RefresherStop ==
    /\ task[Refresher].pc = "refresher"
    /\ ctx = "done"
    /\ task' = [task EXCEPT ![Refresher].pc = RefresherOnDone(@)]
    /\ UNCHANGED <<pools, rq, fan, reply, nreq, ndeq>>
    /\ UNCHANGED <<cacheVars, lmVars, extVars>>

\* timer: case <-ctx.Done(): t.Stop(); return
TimerStop ==
    /\ timerPc = "running"
    /\ ctx = "done"
    /\ timerPc' = "stopped"
    /\ UNCHANGED <<currentTime, startTime, tickC, nextFire, ctx>>
    /\ UNCHANGED <<cacheVars, lmVars, srvVars, connVars, envVars, heapVars>>

\* The server running, with a cache entry that has expired and a tick of
\* the ticker waiting for the timer; the first upstream answers every query
\* with a record and the others are down.
InitShutdown ==
    /\ ServerStarted(defaultPools, <<>>)
    /\ cache = [k \in {1} |-> Expired]
    /\ size = defaultCacheSize
    /\ wall = maxTTL
    /\ advances = 0
    /\ last = NoOp
    /\ LMIdle
    /\ startTime = wall - Period
    /\ tickC = <<wall>>
    /\ nextFire = wall + Period
    /\ timerPc = "running"
    /\ ctx = "live"
    /\ currentTime = ZeroTime
    /\ ConnIdle
    /\ upstreams = [p \in 1..defaultPools |-> IF p = 1 THEN "answers" ELSE "down"]
    /\ CloserWaiting
    /\ HeapIdle

NextShutdown ==
    \/ \E h \in Handlers : Serving(h)
    \/ \E t \in Tasks : Forwarding(t)
    \/ Dequeue
    \/ TimerRecv
    \/ Cancel
    \/ CloserWakes
    \/ CloserShutsPool
    \/ RefresherStop
    \/ TimerStop

\* Every goroutine is scheduled again and again and every exchange returns;
\* a select with several cases ready takes each of them sooner or later.
SpecShutdown ==
    /\ InitShutdown
    /\ [][NextShutdown]_vars
    /\ \A t \in Tasks : WF_vars(Forwarding(t))
    /\ WF_vars(CloserWakes)
    /\ WF_vars(CloserShutsPool)
    /\ SF_vars(RefresherStop)
    /\ SF_vars(TimerStop)

AllStopped ==
    /\ task[Refresher].pc = "stopped"
    /\ timerPc = "stopped"
    /\ closer.shut = Pools

\* C16: once the root context is cancelled, the refresher and the timer stop
\* and every pool is shut down; a refresher that has stopped stays stopped,
\* takes nothing more from the refresh queue and puts nothing in the cache,
\* and a timer that has stopped sets the clock no more.
ShutdownStops ==
    /\ (ctx = "done") ~> AllStopped
    /\ [][task[Refresher].pc = "stopped" =>
            /\ task'[Refresher] = task[Refresher]
            /\ Len(rq') >= Len(rq)
            /\ ndeq' = ndeq]_vars
    /\ [][timerPc = "stopped" => (timerPc' = "stopped" /\ currentTime' = currentTime)]_vars

\* All has stopped, after the refresher had dequeued a query, and with an
\* entry left in the refresh queue that will not be dequeued.
ShutdownStopsWitness ==
    /\ ctx = "done"
    /\ AllStopped
    /\ ndeq > 0
    /\ rq # <<>>

(***************************************************************************)
(* The heap-backed store (proxy/cache2.go): c.pq is a min heap ordered by  *)
(* Less, kept by container/heap; c.m finds an item's index by its key and  *)
(* is kept in step with c.pq by Swap, Push and Pop, so the model looks the *)
(* key up in c.pq.  An item has its key, its ttl and t, the field for its  *)
(* insertion time; the model keeps with each item the time it was in fact  *)
(* inserted at (ins).  Indices count from 1.                               *)
(***************************************************************************)
HeapKeys == 1..NumHeapKeys
HeapTTLs == 1..MaxHeapTTL

\* func (c *cacheItem) secondsLeft(unixNow int64) int64
secondsLeft(item, unixNow) == item.ttl - (unixNow - item.t)

\* func (c *store) Less(i, j int) bool
Less(pq, i, j, t) == secondsLeft(pq[i], t) < secondsLeft(pq[j], t)

\* func (c *store) Swap(i, j int)
Swap(pq, i, j) ==
    [x \in 1..Len(pq) |-> IF x = i THEN pq[j] ELSE IF x = j THEN pq[i] ELSE pq[x]]

\* container/heap: up(h, j)
RECURSIVE heapUp(_, _, _)
heapUp(pq, j, t) ==
    IF j = 1 THEN pq
    ELSE LET i == j \div 2
         IN IF ~Less(pq, j, i, t) THEN pq ELSE heapUp(Swap(pq, i, j), i, t)

\* container/heap: down(h, i, n)
RECURSIVE heapDown(_, _, _, _)
heapDown(pq, i, n, t) ==
    LET j1 == 2 * i
        j == IF j1 + 1 <= n /\ Less(pq, j1 + 1, j1, t) THEN j1 + 1 ELSE j1
    IN IF j1 > n THEN pq
       ELSE IF ~Less(pq, j, i, t) THEN pq
       ELSE heapDown(Swap(pq, i, j), j, n, t)

\* heap.Pop(c): <<the heap left, the item removed>>
heapPop(pq, t) ==
    LET n == Len(pq)
        d == heapDown(Swap(pq, 1, n), 1, n - 1, t)
    IN <<SubSeq(d, 1, n - 1), d[n]>>

\* heap.Push(c, x)
heapPush(pq, x, t) == heapUp(Append(pq, x), Len(pq) + 1, t)

\* heap.Fix(c, i)
heapFix(pq, i, t) ==
    LET d == heapDown(pq, i, Len(pq), t)
    IN IF d # pq THEN d ELSE heapUp(pq, i, t)

\* c.m[key]: the index of the key's item, 0 when there is none.
IndexOf(pq, k) ==
    IF \E i \in 1..Len(pq) : pq[i].key = k
    THEN CHOOSE i \in 1..Len(pq) : pq[i].key = k
    ELSE 0

PushedAtNow(k, ttl, t) == [key |-> k, ttl |-> ttl, t |-> t, ins |-> t]

\* cacheItem{key: key, value: v, ttl: int64(ttl)}: t is left at its zero.
Pushed(k, ttl, t) == [key |-> k, ttl |-> ttl, t |-> 0, ins |-> t]

\* The time an item has left until it expires: insertion time + ttl - now.
TimeLeft(item, t) == item.ins + item.ttl - t

\* func (c *store) put(key string, v *dns.Msg, ttl int)
HeapPut(k, ttl) ==
    /\ ht' = hnow
    /\ LET i == IndexOf(hpq, k)
           popped == heapPop(hpq, ht')
       IN IF i # 0
          THEN /\ hpq' = heapFix([hpq EXCEPT ![i].ttl = ttl], i, ht')
               /\ hLast' = [NoHeapPut EXCEPT !.key = k]
          ELSE IF Len(hpq) = hcap
          THEN /\ hpq' = heapPush(popped[1], Pushed(k, ttl, ht'), ht')
               /\ hLast' = [key |-> k, evicted |-> popped[2].key,
                            least |-> \A j \in 1..Len(hpq) :
                                TimeLeft(popped[2], ht') <= TimeLeft(hpq[j], ht')]
          ELSE /\ hpq' = heapPush(hpq, Pushed(k, ttl, ht'), ht')
               /\ hLast' = [NoHeapPut EXCEPT !.key = k]
    /\ UNCHANGED <<hcap, hnow>>
    /\ UNCHANGED <<cacheVars, lmVars, srvVars, clockVars, connVars, envVars>>

\* A second passes.
HeapSecond ==
    /\ hnow < MaxHeapTime
    /\ hnow' = hnow + 1
    /\ UNCHANGED <<hpq, hcap, ht, hLast>>
    /\ UNCHANGED <<cacheVars, lmVars, srvVars, clockVars, connVars, envVars>>

\* newStore(size)
InitHeap ==
    /\ hpq = <<>>
    /\ hcap \in 1..MaxHeapSize
    /\ hnow = 0
    /\ ht = hnow
    /\ hLast = NoHeapPut
    /\ CacheIdle
    /\ LMIdle
    /\ ServerIdle
    /\ ClockIdle
    /\ ConnIdle
    /\ NoPromise
    /\ closer = [pc |-> "wait", shut |-> {}]

NextHeap ==
    \/ \E k \in HeapKeys, ttl \in HeapTTLs : HeapPut(k, ttl)
    \/ HeapSecond

SpecHeap == InitHeap /\ [][NextHeap]_vars

\* C17: when a put of a new key into a full store removes a record, no
\* record held had less time left until it expires (insertion time + ttl -
\* now) than the one removed.
EvictsLeastTimeLeft ==
    hLast.evicted # 0 => hLast.least

(***************************************************************************)
(* The goroutines of a fan-out, once the call has returned.                *)
(***************************************************************************)
\* C18: no goroutine of a fan-out stays blocked on its send once
\* forwardMessageAndGetResponse has returned: nothing is received from the
\* channel any more, so a goroutine that is about to send finds a free slot.
FanOutArmsTerminate ==
    \A t \in Tasks :
        task[t].pc = "returned" =>
            \A p \in DOMAIN fan[t].arm :
                fan[t].arm[p] \in {"sendNil", "sendR"} => CanSend(t)

(***************************************************************************)
(* More properties of the LRU/MFA cache, checked under SpecLM.             *)
(***************************************************************************)
\* C19: in a cache of capacity 2 or more, a Get that comes right after a
\* Put(k, v), for the same key, returns (v, true).
ReadYourWrites ==
    (lmSize >= 2 /\ lmLast.op = "get" /\ lmLast.follows)
        => (lmLast.ok /\ lmLast.res = lmLast.v)

\* C20: no key is held by both stores, so Len counts every cached key once,
\* and after a Put(k, v) no store holds k with a value other than v.
NoKeyInBothStores ==
    /\ DOMAIN lru \cap DOMAIN mfa = {}
    /\ LMLen(lru, mfa) = Cardinality(DOMAIN lru \cup DOMAIN mfa)
    /\ lmLast.op = "put" =>
           /\ lmLast.k \in DOMAIN lru => lru[lmLast.k].v = lmLast.v
           /\ lmLast.k \in DOMAIN mfa => mfa[lmLast.k].v = lmLast.v

\* A full cache whose last Put gave a new value to a key of the MFA store
\* while the LRU store held other keys.
NoKeyInBothStoresWitness ==
    /\ LMLen(lru, mfa) = LMCap(lmSize)
    /\ lru # <<>>
    /\ lmLast.op = "put"
    /\ lmLast.k \in DOMAIN mfa
    /\ mfa[lmLast.k].v = lmLast.v
    /\ mfa[lmLast.k].a >= 3

=============================================================================
